---- MODULE Spec2Model ----
(***************************************************************************)
(* Model of src/src/device.rs: the type-state driver handle Rumba<T, MODE>, *)
(* its mode transitions, its command encoders, the blocking write primitive *)
(* and the shutdown-on-drop destructor, together with the pure conversions  *)
(* U16Ext::ms and Note::midi_value.                                         *)
(***************************************************************************)
EXTENDS Integers, Naturals, Sequences, FiniteSets, TLC

\* ------------------------------------------------------------------------
\* Bounds of the model
\* ------------------------------------------------------------------------
\* Number of public operations called on one transport in the lifetime model.
MaxOps == 5
\* Number of command calls (send_song, clean, max_clean, play_song) among them.
MaxCmds == 2
\* Longest note slice handed to send_song (one more than the buffer can hold).
MaxNotes == 17

\* ------------------------------------------------------------------------
\* Program constants
\* ------------------------------------------------------------------------
OpStart == 128
OpSafe == 131
OpOff == 173
OpSong == 140
OpPlay == 141
OpClean == 135
OpMaxClean == 136
BufferLen == 35
U8Mod == 256
U16Max == 65535

\* The three handle types that have an impl block (mode::Full has none).
Modes == {"Off", "Passive", "Safe"}

\* enum SongSlot and its `as u8` discriminants.
SongSlot == {"First", "Second", "Third", "Fourth"}

SlotValue(song) ==
  CASE song = "First" -> 0
    [] song = "Second" -> 1
    [] song = "Third" -> 2
    [] song = "Fourth" -> 3

\* enum NoteOctave and its discriminants.
NoteOctave ==
  {"Silent", "Contra", "Great", "Small", "OneLined", "TwoLined", "ThreeLined",
   "FourLined"}

\* The octave table with the last discriminant mistyped (246 for 96).
OctaveValueBad(octave) ==
  CASE octave = "Silent" -> 0
    [] octave = "Contra" -> 24
    [] octave = "Great" -> 36
    [] octave = "Small" -> 48
    [] octave = "OneLined" -> 60
    [] octave = "TwoLined" -> 72
    [] octave = "ThreeLined" -> 84
    [] octave = "FourLined" -> 246

\* The octave table as an even ladder of twelves from Silent = 0.
OctaveValueLadder(octave) ==
  CASE octave = "Silent" -> 0
    [] octave = "Contra" -> 12
    [] octave = "Great" -> 24
    [] octave = "Small" -> 36
    [] octave = "OneLined" -> 48
    [] octave = "TwoLined" -> 60
    [] octave = "ThreeLined" -> 72
    [] octave = "FourLined" -> 84

OctaveValue(octave) ==
  CASE octave = "Silent" -> 0
    [] octave = "Contra" -> 24
    [] octave = "Great" -> 36
    [] octave = "Small" -> 48
    [] octave = "OneLined" -> 60
    [] octave = "TwoLined" -> 72
    [] octave = "ThreeLined" -> 84
    [] octave = "FourLined" -> 96

\* enum NoteName and its discriminants.
NoteName ==
  {"C", "CSharp", "D", "DSharp", "E", "F", "FSharp", "G", "GSharp", "A",
   "ASharp", "B"}

NameValue(name) ==
  CASE name = "C" -> 0
    [] name = "CSharp" -> 1
    [] name = "D" -> 2
    [] name = "DSharp" -> 3
    [] name = "E" -> 4
    [] name = "F" -> 5
    [] name = "FSharp" -> 6
    [] name = "G" -> 7
    [] name = "GSharp" -> 8
    [] name = "A" -> 9
    [] name = "ASharp" -> 10
    [] name = "B" -> 11

\* U16Ext::ms with the `as u8` cast left out (a plausible slip: saturating).
ms_saturating(self) ==
  LET wide == (self * 64) \div 1000
  IN  [ticks |-> IF wide > U8Mod - 1 THEN U8Mod - 1 ELSE wide]

\* U16Ext::ms: (self as u64 * 64 / 1000) as u8.  The product fits u64, the
\* division truncates, the cast keeps the low eight bits.
ms(self) == [ticks |-> ((self * 64) \div 1000) % U8Mod]

\* Note::duration
duration(note) == note.duration.ticks

\* Note::midi_value: u8 + u8 (wraps at 256 in a build without overflow checks).
midi_value(note) == (NameValue(note.name) + OctaveValue(note.octave)) % U8Mod


\* ------------------------------------------------------------------------
\* Inputs: notes and songs handed to the driver
\* ------------------------------------------------------------------------
\* A Note literal as a caller writes it: the duration comes from u16::ms(),
\* the only constructor of NoteDuration outside the module.
MkNote(name, octave, millis) ==
  [name |-> name, octave |-> octave, duration |-> ms(millis)]

NotePool ==
  << MkNote("D", "ThreeLined", 1000),
     MkNote("D", "TwoLined", 1000),
     MkNote("B", "FourLined", 3984),
     MkNote("C", "Silent", 0),
     MkNote("GSharp", "Contra", 16),
     MkNote("A", "OneLined", U16Max) >>

PoolSize == Len(NotePool)

\* The slice of n notes that starts at pool index a and advances by d.
SongOf(n, a, d) ==
  [i \in 1..n |-> NotePool[((a + (i - 1) * d) % PoolSize) + 1]]

Songs ==
  {SongOf(n, a, d) : n \in 0..MaxNotes, a \in 0..(PoolSize - 1), d \in 0..2}

\* Songs used in the lifetime model: the two notes of tests::rumba_sends_song
\* and one that is too long.
LifetimeSongs == {SongOf(2, 0, 1), SongOf(MaxNotes, 0, 1)}

\* Slots used for send_song in the lifetime model.
LifetimeSlots == {"First", "Fourth"}

\* ------------------------------------------------------------------------
\* The buffer of send_song
\* ------------------------------------------------------------------------
RECURSIVE FillBuffer(_, _, _)
\* The for loop of send_song from position index on.  An index past the
\* end of the array is a bounds-check panic; nothing is stored there.
FillBuffer(buffer, notes, index) ==
  IF index >= Len(notes)
    THEN [buffer |-> buffer, panic |-> FALSE]
    ELSE IF 3 + index * 2 >= BufferLen \/ 4 + index * 2 >= BufferLen
      THEN [buffer |-> buffer, panic |-> TRUE]
      ELSE FillBuffer(
             [buffer EXCEPT ![3 + index * 2] = midi_value(notes[index + 1]),
                            ![4 + index * 2] = duration(notes[index + 1])],
             notes, index + 1)

\* send_song with the count byte taken from the slot (a plausible slip).
SongBufferSwapped(song, notes) ==
  LET header == [i \in 0..(BufferLen - 1) |->
                   IF i = 0 THEN OpSong
                   ELSE IF i = 1 THEN Len(notes) % U8Mod
                   ELSE IF i = 2 THEN SlotValue(song)
                   ELSE 0]
      filled == FillBuffer(header, notes, 0)
      end    == 3 + 2 * Len(notes)
  IN  IF filled.panic \/ end > BufferLen
        THEN [panic |-> TRUE, bytes |-> << >>]
        ELSE [panic |-> FALSE,
              bytes |-> [i \in 1..end |-> filled.buffer[i - 1]]]

\* The bytes send_song hands to write, buffer[..3 + 2 * notes.len()], or the
\* panic of an out-of-range index.
SongBuffer(song, notes) ==
  LET header == [i \in 0..(BufferLen - 1) |->
                   IF i = 0 THEN OpSong
                   ELSE IF i = 1 THEN SlotValue(song)
                   ELSE IF i = 2 THEN Len(notes) % U8Mod
                   ELSE 0]
      filled == FillBuffer(header, notes, 0)
      end    == 3 + 2 * Len(notes)
  IN  IF filled.panic \/ end > BufferLen
        THEN [panic |-> TRUE, bytes |-> << >>]
        ELSE [panic |-> FALSE,
              bytes |-> [i \in 1..end |-> filled.buffer[i - 1]]]

\* ------------------------------------------------------------------------
\* The write primitive
\* ------------------------------------------------------------------------
\* Rumba::write.  accepted is the behaviour of the transport: the number of
\* bytes it takes before it answers with an error (WouldBlock answers are
\* retried by nb::block! and change nothing).  The first error ends the loop.
write(h, buffer, accepted) ==
  IF Len(buffer) = 0
    THEN [sent |-> << >>, result |-> "Ok"]
    ELSE IF h.io_port = "None"
      THEN [sent |-> << >>, result |-> "Unwrap"]
      ELSE IF accepted >= Len(buffer)
        THEN [sent |-> buffer, result |-> "Ok"]
        ELSE [sent |-> SubSeq(buffer, 1, accepted), result |-> "Err"]

\* Transport behaviours to try for a buffer: fail at byte 0..n-1, or accept all.
Outcomes(buffer) == 0..Len(buffer)

\* ------------------------------------------------------------------------
\* Handles
\* ------------------------------------------------------------------------
\* A handle value: its io_port field and whether its destructor will run.
NewHandle(port) == [io_port |-> port, armed |-> TRUE]

NoHusk == [io_port |-> "Absent", armed |-> FALSE]

\* decompose that moves the port out but lets the old handle's destructor
\* run with the port still reachable (no ManuallyDrop, no take).
decomposeArmed(h) == [port |-> h.io_port, husk |-> h]

\* decompose that takes the port but forgets ManuallyDrop: the emptied
\* handle is still armed when it goes out of scope.
decomposeTakeOnly(h) ==
  [port |-> h.io_port, husk |-> [io_port |-> "None", armed |-> TRUE]]

\* Rumba::decompose: ManuallyDrop::new(self) disarms the destructor of the
\* consumed handle, io_port.take() leaves None behind and yields the port.
decompose(h) ==
  [port |-> h.io_port, husk |-> [io_port |-> "None", armed |-> FALSE]]

\* What the destruction of a consumed handle writes: nothing when disarmed,
\* otherwise Drop::drop -> enter_off_state -> write(&[173]).
HuskDrop(h) ==
  IF h.armed /\ h.io_port = "Some" THEN << OpOff >> ELSE << >>

\* The impl blocks with play_song written into the Passive one.
MethodsMisplaced(m) ==
  CASE m = "Off" -> {"into_passive"}
    [] m = "Passive" -> {"into_off", "into_safe", "send_song", "clean",
                         "max_clean", "play_song"}
    [] m = "Safe" -> {"into_off", "into_passive"}

\* The impl blocks with into_safe also offered on the Off handle.
MethodsSafeFromOff(m) ==
  CASE m = "Off" -> {"into_passive", "into_safe"}
    [] m = "Passive" -> {"into_off", "into_safe", "send_song", "clean",
                         "max_clean"}
    [] m = "Safe" -> {"play_song", "into_off", "into_passive"}

\* The methods each impl block offers.
Methods(m) ==
  CASE m = "Off" -> {"into_passive"}
    [] m = "Passive" -> {"into_off", "into_safe", "send_song", "clean",
                         "max_clean"}
    [] m = "Safe" -> {"play_song", "into_off", "into_passive"}

Transitions == {"into_passive", "into_safe", "into_off"}
Commands == {"send_song", "clean", "max_clean", "play_song"}


\* ------------------------------------------------------------------------
\* State
\* ------------------------------------------------------------------------
VARIABLES
  mode,          \* MODE parameter of the handle that currently owns the port
  handle,        \* that handle: [io_port, armed]
  husk,          \* what is left of the handle the last transition consumed
  status,        \* "live", "dropped", "unwound", "aborted"; "none": no handle
  log,           \* every byte the transport has accepted, in order
  hist,          \* names of the operations called so far, in call order
  args,          \* arguments of the last call
  result,        \* what the last call gave back to its caller
  panic_msg,     \* message of the first panic, "" while there is none
  panic_unwind,  \* build setting: panics unwind (TRUE) or abort (FALSE)
  wfail,         \* some transport write has answered with an error
  wcalls,        \* the calls of write made by the last operation, in order
  wbuf,          \* byte-stepped write: its buffer argument
  wpos,          \* byte-stepped write: number of bytes accepted so far
  wpc,           \* byte-stepped write: "idle", "poll", "ok", "err"
  polls,         \* byte-stepped write: WouldBlock answers for this byte
  input,         \* argument of a conversion (ms, midi_value)
  output         \* its result

vars ==
  << mode, handle, husk, status, log, hist, args, result, panic_msg,
     panic_unwind, wfail, wcalls, wbuf, wpos, wpc, polls, input, output >>

\* The variables of the byte-stepped write, untouched by the atomic actions.
stepvars == << wbuf, wpos, wpc, polls >>

\* The record of one call of write: its buffer, the bytes the transport
\* took and the value write returned.
WriteCall(buffer, w) == [buffer |-> buffer, sent |-> w.sent, result |-> w.result]

NoArgs(op) == [op |-> op, song |-> "none", notes |-> << >>]

OffMsg == "Error entering the off state failed!"
PassiveMsg == "Error entering the passive state failed!"
UnwrapMsg == "called Option::unwrap() on a None value"
IndexMsg == "index out of bounds"

\* enter_off_state with the opcode of enter_passive_state (the two bodies
\* differ in one literal).
enter_off_state_start(h, accepted) ==
  LET w == write(h, << OpStart >>, accepted)
  IN  [sent |-> w.sent, result |-> w.result,
       calls |-> << WriteCall(<< OpStart >>, w) >>,
       msg |-> IF w.result = "Unwrap" THEN UnwrapMsg ELSE OffMsg]

\* Rumba::enter_off_state
enter_off_state(h, accepted) ==
  LET w == write(h, << OpOff >>, accepted)
  IN  [sent |-> w.sent, result |-> w.result,
       calls |-> << WriteCall(<< OpOff >>, w) >>,
       msg |-> IF w.result = "Unwrap" THEN UnwrapMsg ELSE OffMsg]

\* Rumba::enter_passive_state
enter_passive_state(h, accepted) ==
  LET w == write(h, << OpStart >>, accepted)
  IN  [sent |-> w.sent, result |-> w.result,
       calls |-> << WriteCall(<< OpStart >>, w) >>,
       msg |-> IF w.result = "Unwrap" THEN UnwrapMsg ELSE PassiveMsg]

\* The first statement of Passive::into_safe.
enter_safe_state(h, accepted) ==
  LET w == write(h, << OpSafe >>, accepted)
  IN  [sent |-> w.sent, result |-> w.result,
       calls |-> << WriteCall(<< OpSafe >>, w) >>,
       msg |-> IF w.result = "Unwrap" THEN UnwrapMsg ELSE OffMsg]

\* Unwinding with the handle already disarmed: no destructor runs.
UnwindDisarmed(h, accepted) ==
  [sent |-> << >>, calls |-> << >>,
   status |-> IF panic_unwind THEN "unwound" ELSE "aborted",
   failed |-> FALSE]

\* A panic that leaves a frame which owns the armed handle h.  An aborting
\* build stops at once.  An unwinding build runs Drop::drop, whose own write
\* may fail: a second panic while unwinding aborts.
Unwind(h, accepted) ==
  IF ~panic_unwind \/ ~h.armed
    THEN [sent |-> << >>, calls |-> << >>,
          status |-> IF panic_unwind THEN "unwound" ELSE "aborted",
          failed |-> FALSE]
    ELSE LET d == enter_off_state(h, accepted)
         IN  [sent |-> d.sent, calls |-> d.calls,
              status |-> IF d.result = "Ok" THEN "unwound" ELSE "aborted",
              failed |-> d.result = "Err"]

CmdCount == Cardinality({i \in DOMAIN hist : hist[i] \in Commands})

CanCall(op) ==
  /\ status = "live"
  /\ op \in Methods(mode)
  /\ Len(hist) < MaxOps
  /\ op \in Commands => CmdCount < MaxCmds

\* A transition that ignores the result of its opcode write (let _ = ...)
\* and hands out the new handle in any case.
TransitionLenient(op, dest, entry, unwound) ==
  /\ CanCall(op)
  /\ hist' = Append(hist, op)
  /\ args' = NoArgs(op)
  /\ UNCHANGED << panic_unwind, input, output, stepvars, status, panic_msg >>
  /\ LET d == decompose(handle)
     IN  /\ handle' = NewHandle(d.port)
         /\ wcalls' = entry.calls
         /\ husk' = d.husk
         /\ mode' = dest
         /\ log' = log \o entry.sent \o HuskDrop(d.husk)
         /\ result' = "Handle"
         /\ wfail' = (wfail \/ entry.result = "Err")

\* A transition into mode dest: entry is the outcome of its opcode write,
\* unwound the answer of the transport to the destructor write if it panics.
Transition(op, dest, entry, unwound) ==
  /\ CanCall(op)
  /\ hist' = Append(hist, op)
  /\ args' = NoArgs(op)
  /\ UNCHANGED << panic_unwind, input, output, stepvars >>
  /\ IF entry.result = "Ok"
       THEN LET d == decompose(handle)
            IN  /\ handle' = NewHandle(d.port)
                /\ wcalls' = entry.calls
                /\ husk' = d.husk
                /\ mode' = dest
                /\ log' = log \o entry.sent \o HuskDrop(d.husk)
                /\ result' = "Handle"
                /\ UNCHANGED << status, panic_msg, wfail >>
       ELSE LET u == Unwind(handle, unwound)
            IN  /\ log' = log \o entry.sent \o u.sent
                /\ wcalls' = entry.calls \o u.calls
                /\ status' = u.status
                /\ result' = "Panic"
                /\ panic_msg' = entry.msg
                /\ wfail' = (wfail \/ entry.result = "Err" \/ u.failed)
                /\ UNCHANGED << mode, handle, husk >>

\* Off::into_passive and Safe::into_passive
into_passive(accepted, unwound) ==
  Transition("into_passive", "Passive",
             enter_passive_state(handle, accepted), unwound)

\* Passive::into_off and Safe::into_off
into_off(accepted, unwound) ==
  Transition("into_off", "Off", enter_off_state(handle, accepted), unwound)

\* Passive::into_safe
into_safe(accepted, unwound) ==
  Transition("into_safe", "Safe", enter_safe_state(handle, accepted), unwound)

\* A command that treats a failed write like the transitions do: it panics.
CommandFatal(op, song, notes, buffer, accepted) ==
  /\ CanCall(op)
  /\ LET w == write(handle, buffer, accepted)
         u == Unwind(handle, 1)
     IN  /\ wfail' = (wfail \/ w.result = "Err")
         /\ IF w.result = "Ok"
              THEN /\ log' = log \o w.sent
                   /\ result' = "Ok"
                   /\ wcalls' = << WriteCall(buffer, w) >>
                   /\ UNCHANGED << status, panic_msg >>
              ELSE /\ log' = log \o w.sent \o u.sent
                   /\ result' = "Panic"
                   /\ wcalls' = << WriteCall(buffer, w) >> \o u.calls
                   /\ status' = u.status
                   /\ panic_msg' = OffMsg
  /\ hist' = Append(hist, op)
  /\ args' = [op |-> op, song |-> song, notes |-> notes]
  /\ UNCHANGED << mode, handle, husk, panic_unwind, input, output, stepvars >>

\* A command that gives up the port when its write fails (io_port.take()).
CommandTakesPort(op, song, notes, buffer, accepted) ==
  /\ CanCall(op)
  /\ LET w == write(handle, buffer, accepted)
     IN  /\ log' = log \o w.sent
         /\ result' = w.result
         /\ wfail' = (wfail \/ w.result = "Err")
         /\ wcalls' = << WriteCall(buffer, w) >>
         /\ handle' = IF w.result = "Err"
                        THEN [handle EXCEPT !.io_port = "None"]
                        ELSE handle
  /\ hist' = Append(hist, op)
  /\ args' = [op |-> op, song |-> song, notes |-> notes]
  /\ UNCHANGED << mode, husk, status, panic_msg, panic_unwind, input,
                  output, stepvars >>

\* A command that writes `buffer` and hands the write's result to the caller.
Command(op, song, notes, buffer, accepted) ==
  /\ CanCall(op)
  /\ LET w == write(handle, buffer, accepted)
     IN  /\ log' = log \o w.sent
         /\ result' = w.result
         /\ wfail' = (wfail \/ w.result = "Err")
         /\ wcalls' = << WriteCall(buffer, w) >>
  /\ hist' = Append(hist, op)
  /\ args' = [op |-> op, song |-> song, notes |-> notes]
  /\ UNCHANGED << mode, handle, husk, status, panic_msg, panic_unwind, input,
                  output, stepvars >>

\* Passive::clean
clean(accepted) == Command("clean", "none", << >>, << OpClean >>, accepted)

\* max_clean with the opcode of clean, copied from the method above it.
max_clean_copied(accepted) ==
  Command("max_clean", "none", << >>, << OpClean >>, accepted)

\* Passive::max_clean
max_clean(accepted) ==
  Command("max_clean", "none", << >>, << OpMaxClean >>, accepted)

\* play_song that sends the slot counted from one.
play_song_one_based(song, accepted) ==
  Command("play_song", song, << >>, << OpPlay, SlotValue(song) + 1 >>,
          accepted)

\* Safe::play_song
play_song(song, accepted) ==
  Command("play_song", song, << >>, << OpPlay, SlotValue(song) >>, accepted)

\* Passive::send_song.  An over-long slice panics in the loop, before any
\* write; the panic leaves the caller's frame, which owns the handle.
send_song(song, notes, accepted, unwound) ==
  LET b == SongBuffer(song, notes)
  IN  IF ~b.panic
        THEN Command("send_song", song, notes, b.bytes, accepted)
        ELSE /\ CanCall("send_song")
             /\ LET u == Unwind(handle, unwound)
                IN  /\ log' = log \o u.sent
                    /\ status' = u.status
                    /\ wfail' = (wfail \/ u.failed)
                    /\ wcalls' = u.calls
             /\ result' = "Panic"
             /\ panic_msg' = IndexMsg
             /\ hist' = Append(hist, "send_song")
             /\ args' = [op |-> "send_song", song |-> song, notes |-> notes]
             /\ UNCHANGED << mode, handle, husk, panic_unwind, input, output,
                             stepvars >>

\* A destructor that skips the shutdown write for a handle already in Off.
drop_skips_off(accepted) ==
  /\ status = "live"
  /\ handle.armed
  /\ LET d == IF mode = "Off"
                THEN [sent |-> << >>, result |-> "Ok", calls |-> << >>,
                      msg |-> ""]
                ELSE enter_off_state(handle, accepted)
     IN  /\ log' = log \o d.sent
         /\ wfail' = (wfail \/ d.result = "Err")
         /\ wcalls' = d.calls
         /\ IF d.result = "Ok"
              THEN /\ status' = "dropped"
                   /\ result' = "Unit"
                   /\ UNCHANGED panic_msg
              ELSE /\ status' = IF panic_unwind THEN "unwound" ELSE "aborted"
                   /\ result' = "Panic"
                   /\ panic_msg' = d.msg
  /\ hist' = Append(hist, "drop")
  /\ args' = NoArgs("drop")
  /\ UNCHANGED << mode, handle, husk, panic_unwind, input, output, stepvars >>

\* Drop::drop of the live handle (it goes out of scope unconsumed).
drop(accepted) ==
  /\ status = "live"
  /\ handle.armed
  /\ LET d == enter_off_state(handle, accepted)
     IN  /\ log' = log \o d.sent
         /\ wfail' = (wfail \/ d.result = "Err")
         /\ wcalls' = d.calls
         /\ IF d.result = "Ok"
              THEN /\ status' = "dropped"
                   /\ result' = "Unit"
                   /\ UNCHANGED panic_msg
              ELSE /\ status' = IF panic_unwind THEN "unwound" ELSE "aborted"
                   /\ result' = "Panic"
                   /\ panic_msg' = d.msg
  /\ hist' = Append(hist, "drop")
  /\ args' = NoArgs("drop")
  /\ UNCHANGED << mode, handle, husk, panic_unwind, input, output, stepvars >>

\* ------------------------------------------------------------------------
\* Lifetime of one transport: Rumba::new, then any calls, then the drop
\* ------------------------------------------------------------------------
\* The state right after Rumba::new(io_port).
Init ==
  /\ mode = "Off"
  /\ handle = NewHandle("Some")
  /\ husk = NoHusk
  /\ status = "live"
  /\ log = << >>
  /\ hist = << >>
  /\ args = NoArgs("new")
  /\ result = "Handle"
  /\ panic_msg = ""
  /\ panic_unwind \in BOOLEAN
  /\ wfail = FALSE
  /\ wcalls = << >>
  /\ wbuf = << >>
  /\ wpos = 0
  /\ wpc = "idle"
  /\ polls = 0
  /\ input = << >>
  /\ output = << >>

\* Answers of the transport to the destructor write of an unwinding panic.
UnwindOutcomes == IF panic_unwind THEN 0..1 ELSE {1}

\* The caller invokes an operation of the live handle; the transport answers.
CallIntoPassive ==
  /\ CanCall("into_passive")
  /\ \E a \in 0..1, u \in UnwindOutcomes : into_passive(a, u)

CallIntoOff ==
  /\ CanCall("into_off")
  /\ \E a \in 0..1, u \in UnwindOutcomes : into_off(a, u)

CallIntoSafe ==
  /\ CanCall("into_safe")
  /\ \E a \in 0..1, u \in UnwindOutcomes : into_safe(a, u)

CallSendSong ==
  /\ CanCall("send_song")
  /\ \E song \in LifetimeSlots, notes \in LifetimeSongs, u \in UnwindOutcomes :
       \E a \in Outcomes(SongBuffer(song, notes).bytes) :
         send_song(song, notes, a, u)

CallClean ==
  /\ CanCall("clean")
  /\ \E a \in 0..1 : clean(a)

CallMaxClean ==
  /\ CanCall("max_clean")
  /\ \E a \in 0..1 : max_clean(a)

CallPlaySong ==
  /\ CanCall("play_song")
  /\ \E song \in SongSlot, a \in 0..2 : play_song(song, a)

HandleDropped == \E a \in 0..1 : drop(a)

Next ==
  \/ CallIntoPassive
  \/ CallIntoOff
  \/ CallIntoSafe
  \/ CallSendSong
  \/ CallClean
  \/ CallMaxClean
  \/ CallPlaySong
  \/ HandleDropped

Spec == Init /\ [][Next]_vars


\* ------------------------------------------------------------------------
\* One send_song call on a fresh Passive handle, over every song of Songs
\* ------------------------------------------------------------------------
\* The state after Rumba::new(io_port).into_passive() on a working transport.
InitSong ==
  /\ mode = "Passive"
  /\ handle = NewHandle("Some")
  /\ husk = decompose(NewHandle("Some")).husk
  /\ status = "live"
  /\ log = << OpStart >>
  /\ hist = << "into_passive" >>
  /\ args = NoArgs("into_passive")
  /\ result = "Handle"
  /\ panic_msg = ""
  /\ panic_unwind \in BOOLEAN
  /\ wfail = FALSE
  /\ wcalls = enter_passive_state(NewHandle("Some"), 1).calls
  /\ wbuf = << >>
  /\ wpos = 0
  /\ wpc = "idle"
  /\ polls = 0
  /\ input = << >>
  /\ output = << >>

DefineSong ==
  /\ Len(hist) = 1
  /\ CanCall("send_song")
  /\ \E song \in SongSlot, notes \in Songs, u \in UnwindOutcomes :
       \E a \in Outcomes(SongBuffer(song, notes).bytes) :
         send_song(song, notes, a, u)

NextSong == DefineSong \/ HandleDropped

SpecSong == InitSong /\ [][NextSong]_vars

\* ------------------------------------------------------------------------
\* Rumba::write, one transport answer at a time
\* ------------------------------------------------------------------------
\* WouldBlock answers the transport gives during one call of write.
MaxPolls == 2

\* Buffers the methods of a Passive handle pass to write.
WriteSongs == {SongOf(1, 3, 0), SongOf(2, 0, 1), SongOf(3, 2, 1)}

WriteBuffers ==
  {<< OpClean >>, << OpMaxClean >>, << OpSafe >>, << OpOff >>}
    \cup {SongBuffer(song, notes).bytes :
            song \in LifetimeSlots, notes \in WriteSongs}

\* A Passive handle (new, then into_passive) at the top of the for loop of
\* write(buffer).
InitWrite ==
  /\ mode = "Passive"
  /\ handle = NewHandle("Some")
  /\ husk = decompose(NewHandle("Some")).husk
  /\ status = "live"
  /\ log = << OpStart >>
  /\ hist = << "into_passive" >>
  /\ args = NoArgs("into_passive")
  /\ result = "Handle"
  /\ panic_msg = ""
  /\ panic_unwind \in BOOLEAN
  /\ wfail = FALSE
  /\ wcalls = << >>
  /\ wbuf \in WriteBuffers
  /\ wpos = 0
  /\ wpc = "poll"
  /\ polls = 0
  /\ input = << >>
  /\ output = << >>

WriteFrame ==
  UNCHANGED << mode, handle, husk, status, hist, args, panic_msg,
               panic_unwind, wbuf, input, output >>

\* The call of write that has just returned.
Returned(res, n) ==
  << [buffer |-> wbuf, sent |-> SubSeq(wbuf, 1, n), result |-> res] >>

\* io_port.write(*element) answers Ok(()): the byte is on the wire and the
\* loop moves to the next element, or returns Ok(()) after the last one.
WriteAccept ==
  /\ wpc = "poll"
  /\ handle.io_port = "Some"
  /\ wpos < Len(wbuf)
  /\ log' = Append(log, wbuf[wpos + 1])
  /\ wpos' = wpos + 1
  /\ IF wpos + 1 = Len(wbuf)
       THEN /\ wpc' = "ok"
            /\ result' = "Ok"
            /\ wcalls' = Returned("Ok", wpos + 1)
       ELSE UNCHANGED << wpc, result, wcalls >>
  /\ UNCHANGED << polls, wfail >>
  /\ WriteFrame

\* WouldBlock that gives up on the element and moves to the next one.
WriteWouldBlockSkips ==
  /\ wpc = "poll"
  /\ handle.io_port = "Some"
  /\ wpos + 1 < Len(wbuf)
  /\ polls < MaxPolls
  /\ polls' = polls + 1
  /\ wpos' = wpos + 1
  /\ UNCHANGED << log, wpc, result, wcalls, wfail >>
  /\ WriteFrame

\* io_port.write(*element) answers Err(nb::Error::WouldBlock): nb::block!
\* loops and calls it again with the same element.
WriteWouldBlock ==
  /\ wpc = "poll"
  /\ handle.io_port = "Some"
  /\ wpos < Len(wbuf)
  /\ polls < MaxPolls
  /\ polls' = polls + 1
  /\ UNCHANGED << log, wpos, wpc, result, wcalls, wfail >>
  /\ WriteFrame

\* An error that is swallowed: the loop goes on with the next element.
WriteFailContinues ==
  /\ wpc = "poll"
  /\ handle.io_port = "Some"
  /\ wpos + 1 < Len(wbuf)
  /\ wpos' = wpos + 1
  /\ wfail' = TRUE
  /\ UNCHANGED << log, wpc, result, wcalls, polls >>
  /\ WriteFrame

\* io_port.write(*element) answers Err(nb::Error::Other(e)): nb::block!
\* yields Err(e) and the ? returns it from write.
WriteFail ==
  /\ wpc = "poll"
  /\ handle.io_port = "Some"
  /\ wpos < Len(wbuf)
  /\ wpc' = "err"
  /\ result' = "Err"
  /\ wfail' = TRUE
  /\ wcalls' = Returned("Err", wpos)
  /\ UNCHANGED << log, wpos, polls >>
  /\ WriteFrame

NextWrite == WriteAccept \/ WriteWouldBlock \/ WriteFail

SpecWrite == InitWrite /\ [][NextWrite]_vars

\* The transport does not answer WouldBlock forever.
SpecWriteFair == SpecWrite /\ WF_vars(WriteAccept \/ WriteFail)

\* ------------------------------------------------------------------------
\* The conversions, applied to every input
\* ------------------------------------------------------------------------
\* No handle takes part in a conversion.
NoDevice ==
  /\ mode = "Off"
  /\ handle = NoHusk
  /\ husk = NoHusk
  /\ status = "none"
  /\ log = << >>
  /\ hist = << >>
  /\ args = NoArgs("none")
  /\ result = "none"
  /\ panic_msg = ""
  /\ panic_unwind = TRUE
  /\ wfail = FALSE
  /\ wcalls = << >>
  /\ wbuf = << >>
  /\ wpos = 0
  /\ wpc = "idle"
  /\ polls = 0

DeviceUnchanged ==
  UNCHANGED << mode, handle, husk, status, log, hist, args, result, panic_msg,
               panic_unwind, wfail, wcalls, stepvars >>

\* Every u16 is a possible receiver of ms().
InitMs ==
  /\ NoDevice
  /\ input \in {<< "ms", x >> : x \in 0..U16Max}
  /\ output = << >>

\* let duration: NoteDuration = input.ms();
CallMs ==
  /\ input[1] = "ms"
  /\ output = << >>
  /\ output' = << ms(input[2]).ticks >>
  /\ UNCHANGED input
  /\ DeviceUnchanged

NextMs == CallMs

SpecMs == InitMs /\ [][NextMs]_vars

\* Every Note: any name, any octave, a duration from the pool.
InitMidi ==
  /\ NoDevice
  /\ input \in {<< "midi_value", MkNote(n, o, d) >> :
                  n \in NoteName, o \in NoteOctave, d \in {0, 1000}}
  /\ output = << >>

\* element.midi_value(), as send_song calls it
CallMidiValue ==
  /\ input[1] = "midi_value"
  /\ output = << >>
  /\ output' = << midi_value(input[2]) >>
  /\ UNCHANGED input
  /\ DeviceUnchanged

NextMidi == CallMidiValue

SpecMidi == InitMidi /\ [][NextMidi]_vars


\* ------------------------------------------------------------------------
\* Properties
\* ------------------------------------------------------------------------
\* Number of positions of the sequence q that hold x.
Count(q, x) == Cardinality({i \in DOMAIN q : q[i] = x})

\* The bytes appended to the log by the step.
Appended == SubSeq(log', Len(log) + 1, Len(log'))

\* The step is a call of op.
Called(op) == hist' = Append(hist, op)

IsPrefix(p, q) == Len(p) <= Len(q) /\ SubSeq(q, 1, Len(p)) = p

\* The opcode the wire protocol assigns to a transition (spec section 6).
WireOpcode(op) ==
  CASE op = "into_passive" -> 128
    [] op = "into_safe" -> 131
    [] op = "into_off" -> 173

\* The calls so far are mode transitions and, at most, the final drop.
OnlyTransitions ==
  \A i \in DOMAIN hist : hist[i] \in Transitions \union {"drop"}

\* C1, as claimed: once the last handle is destroyed and no write has failed,
\* the transport has received the shutdown byte 0xAD exactly once.
C1_ExactlyOneShutdown ==
  (status = "dropped" /\ ~wfail /\ OnlyTransitions) => Count(log, 173) = 1

\* C1, amended: with no write failing, the shutdown byte is written once by
\* every into_off transition and once more by the destruction of the last
\* handle; the handles consumed by transitions write none.  While the handle
\* lives the count is the number of into_off calls, after its destruction it
\* is that number plus one, so it is never zero in the end.
C1_ShutdownPerOffAndDrop ==
  /\ (status = "live" /\ ~wfail /\ OnlyTransitions) =>
       Count(log, 173) = Count(hist, "into_off")
  /\ (status = "dropped" /\ ~wfail /\ OnlyTransitions) =>
       Count(log, 173) = Count(hist, "into_off") + 1

\* C1 witness: a lifetime with two into_off transitions, ended by the drop.
C1_Witness ==
  /\ status = "dropped"
  /\ ~wfail
  /\ OnlyTransitions
  /\ Count(hist, "into_off") = 2
  /\ Count(log, 173) = 3

\* C2: while the last handle lives, after any sequence of transitions alone
\* with no write failing, the transport has received exactly one opcode per
\* transition, in call order, and nothing else (no shutdown byte from the
\* consumed handles).
C2_TransitionBytes ==
  (/\ status = "live"
   /\ ~wfail
   /\ OnlyTransitions)
  => log = [i \in DOMAIN hist |-> WireOpcode(hist[i])]

\* C2 witness: Off -> Passive -> Safe -> Passive gave 0x80, 0x83, 0x80.
C2_Witness ==
  /\ status = "live"
  /\ hist = << "into_passive", "into_safe", "into_passive" >>
  /\ log = << 128, 131, 128 >>

\* C3: the destruction of a live handle, when the transport accepts the
\* write, appends the single byte 0xAD; nothing is written after it; a handle
\* dropped right after Rumba::new leaves the log [0xAD].
C3_DropWritesShutdownLast ==
  [][/\ (status = "live" /\ status' = "dropped") =>
          /\ Appended = << 173 >>
          /\ IsPrefix(log, log')
          /\ (hist = << >> => log' = << 173 >>)
     /\ (status = "dropped" => log' = log)]_vars

\* C3 witness: a Safe handle was destroyed and 0xAD is the last byte.
C3_Witness ==
  /\ status = "dropped"
  /\ mode = "Safe"
  /\ log[Len(log)] = 173

\* C4: a command is issued only in the mode that allows it: clean, max_clean
\* and send_song are called, and their opcodes written, only in Passive;
\* play_song only in Safe; a handle in Off writes nothing but a transition
\* opcode or the shutdown byte.
C4_CommandsOnlyInTheirMode ==
  [][/\ (Called("clean") \/ Called("max_clean") \/ Called("send_song")) =>
          mode = "Passive"
     /\ Called("play_song") => mode = "Safe"
     /\ (status = "live" /\ Appended # << >> /\ Appended[1] \in {135, 136, 140})
          => mode = "Passive"
     /\ (status = "live" /\ Appended # << >> /\ Appended[1] = 141)
          => mode = "Safe"
     /\ (status = "live" /\ mode = "Off" /\ Appended # << >>)
          => Appended[1] \in {128, 173}]_vars

\* C4 witness: a lifetime that used a Passive command and then a Safe one.
C4_Witness ==
  /\ status = "live"
  /\ mode = "Safe"
  /\ hist = << "into_passive", "clean", "into_safe", "play_song" >>
  /\ result = "Ok"


\* The number the wire protocol assigns to a slot: First..Fourth are 0..3.
SlotNumber(song) ==
  CHOOSE i \in 0..3 : << "First", "Second", "Third", "Fourth" >>[i + 1] = song

\* The define-song command of the wire protocol for a slot and its notes:
\* [0x8C, slot, n, pitch_1, dur_1, ..., pitch_n, dur_n].
ExpectedSong(song, notes) ==
  [i \in 1..(3 + 2 * Len(notes)) |->
     IF i = 1 THEN 140
     ELSE IF i = 2 THEN SlotNumber(song)
     ELSE IF i = 3 THEN Len(notes)
     ELSE IF i % 2 = 0
       THEN NameValue(notes[(i - 2) \div 2].name)
              + OctaveValue(notes[(i - 2) \div 2].octave)
       ELSE notes[(i - 3) \div 2].duration.ticks]

\* C5: send_song with n <= 16 notes never panics and, on a working
\* transport, appends exactly the 3 + 2n bytes of the define-song command;
\* when the transport fails it has appended a proper prefix of them; so every
\* define-song command on the wire has a count byte <= 16 and at most 35
\* bytes.  The song of tests::rumba_sends_song gives 140, 0, 2, 86, 64, 74, 64.
C5_SendSongBytes ==
  [][Called("send_song") =>
       LET n == Len(args'.notes)
           e == ExpectedSong(args'.song, args'.notes)
       IN  /\ n <= 16 => result' \in {"Ok", "Err"}
           /\ result' \in {"Ok", "Err"} =>
                /\ n <= 16
                /\ IsPrefix(log, log')
                /\ IsPrefix(Appended, e)
                /\ Len(e) <= 35
                /\ e[3] <= 16
                /\ (result' = "Ok") = (Appended = e)
           /\ (result' = "Ok" /\ args'.song = "First"
                 /\ args'.notes = << MkNote("D", "ThreeLined", 1000),
                                     MkNote("D", "TwoLined", 1000) >>)
                => Appended = << 140, 0, 2, 86, 64, 74, 64 >>]_vars

\* C5 witness: a song of 16 notes went out whole, 35 bytes after the 0x80.
C5_Witness ==
  /\ args.op = "send_song"
  /\ result = "Ok"
  /\ Len(args.notes) = 16
  /\ Len(log) = 36
  /\ log[4] = 16

\* C6, as claimed: send_song with more than 16 notes gives its caller an
\* error value (and stores nothing outside the buffer).
C6_LongSongIsAnError ==
  (args.op = "send_song" /\ Len(args.notes) > 16) => result = "Err"

\* C7: play_song(s) on a Safe handle with a working transport appends
\* exactly [0x8D, s], s encoded 0..3, and the handle stays live in Safe.
C7_PlaySongBytes ==
  [][(Called("play_song") /\ result' = "Ok") =>
       /\ args'.song \in SongSlot
       /\ Appended = << 141, SlotNumber(args'.song) >>
       /\ IsPrefix(log, log')
       /\ mode = "Safe"
       /\ mode' = "Safe"
       /\ status' = "live"
       /\ handle' = handle]_vars

\* C7 witness: play_song(Fourth) went out as 0x8D, 3.
C7_Witness ==
  /\ args.op = "play_song"
  /\ args.song = "Fourth"
  /\ result = "Ok"
  /\ Len(log) >= 2
  /\ SubSeq(log, Len(log) - 1, Len(log)) = << 141, 3 >>

\* C8: on a Passive handle with a working transport clean appends exactly
\* the byte 0x87 and max_clean exactly the byte 0x88, and the handle stays
\* live in Passive.
C8_CleanBytes ==
  [][/\ (Called("clean") /\ result' = "Ok") => Appended = << 135 >>
     /\ (Called("max_clean") /\ result' = "Ok") => Appended = << 136 >>
     /\ ((Called("clean") \/ Called("max_clean")) /\ result' = "Ok") =>
          /\ IsPrefix(log, log')
          /\ mode = "Passive"
          /\ mode' = "Passive"
          /\ status' = "live"
          /\ handle' = handle]_vars

\* C8 witness: clean and then max_clean were both accepted.
C8_Witness ==
  /\ hist = << "into_passive", "clean", "max_clean" >>
  /\ log = << 128, 135, 136 >>
  /\ result = "Ok"

\* floor(x * 64 / 1000) = t, stated without the division.
IsFloorTicks(x, t) == t * 1000 <= x * 64 /\ x * 64 < (t + 1) * 1000

\* C9: for every u16 x, x.ms() stores floor(x * 64 / 1000) mod 256 in one
\* byte: 0 gives 0, 16 gives 1, 1000 gives 64; up to 3984 ms the byte is the
\* tick count itself; a tick count above 255 loses its high part without
\* any error.
C9_MsTicks ==
  (input # << >> /\ input[1] = "ms" /\ output # << >>) =>
    LET x == input[2]
        b == output[1]
    IN  /\ b \in 0..255
        /\ \E q \in 0..16 : IsFloorTicks(x, b + 256 * q)
        /\ x <= 3984 => IsFloorTicks(x, b)
        /\ x = 0 => b = 0
        /\ x = 16 => b = 1
        /\ x = 1000 => b = 64
        /\ x * 64 >= 256 * 1000 => ~IsFloorTicks(x, b)

\* C9 witness: a conversion that wrapped, 4016 ms (257 ticks) stored as 1.
C9_Witness ==
  /\ input = << "ms", 4016 >>
  /\ output = << 1 >>

\* C10: for every name and octave the pitch byte is name offset + octave
\* base, within 0..107, so the u8 addition does not overflow.
C10_PitchRange ==
  (input # << >> /\ input[1] = "midi_value" /\ output # << >>) =>
    LET note == input[2]
        sum == NameValue(note.name) + OctaveValue(note.octave)
    IN  /\ output[1] = sum
        /\ sum \in 0..107
        /\ sum < 256

\* C10 witness: the highest pitch, B in the four-lined octave, is 107.
C10_Witness ==
  /\ input # << >>
  /\ input[1] = "midi_value"
  /\ input[2].name = "B"
  /\ input[2].octave = "FourLined"
  /\ output = << 107 >>


\* The octaves from the lowest band to the highest.
OctaveOrder ==
  << "Silent", "Contra", "Great", "Small", "OneLined", "TwoLined",
     "ThreeLined", "FourLined" >>

\* Position of an octave in OctaveOrder, 1..8.
OctaveIndex(octave) == CHOOSE i \in DOMAIN OctaveOrder : OctaveOrder[i] = octave

\* The conversion just made was midi_value of the note C of some octave, so
\* its result is the base offset of that octave.
BaseComputed ==
  /\ input # << >>
  /\ input[1] = "midi_value"
  /\ input[2].name = "C"
  /\ output # << >>

\* C11, as claimed: the base offsets start at Silent = 0, grow by 12 from
\* each octave to the next, and end at 96.
C11_BasesStepByTwelve ==
  BaseComputed =>
    LET i == OctaveIndex(input[2].octave)
    IN  /\ i = 1 => output[1] = 0
        /\ i > 1 => output[1] = OctaveValue(OctaveOrder[i - 1]) + 12
        /\ i = 8 => output[1] = 96

\* C11, amended: Silent = 0, the first sounding octave Contra = 24, and from
\* Contra on the base grows by 12 per octave up to FourLined = 96; the one
\* step that is not 12 is Silent -> Contra, which is 24.
C11_BasesFromContra ==
  BaseComputed =>
    LET i == OctaveIndex(input[2].octave)
    IN  /\ i = 1 => output[1] = 0
        /\ i = 2 => output[1] = 24
        /\ i > 2 => output[1] = OctaveValue(OctaveOrder[i - 1]) + 12
        /\ i = 8 => output[1] = 96
        /\ output[1] = IF i = 1 THEN 0 ELSE 12 * i

\* C11 witness: the base of the Contra octave was computed and is 24.
C11_Witness ==
  /\ BaseComputed
  /\ input[2].octave = "Contra"
  /\ output = << 24 >>


\* The bytes the wire protocol assigns to a command call (spec section 6).
CommandBytes(a) ==
  CASE a.op = "clean" -> << 135 >>
    [] a.op = "max_clean" -> << 136 >>
    [] a.op = "play_song" -> << 141, SlotNumber(a.song) >>
    [] a.op = "send_song" -> ExpectedSong(a.song, a.notes)

\* The step is a call of the command op whose own write was answered with
\* an error by the transport.
CommandWriteFailed(op) ==
  /\ Called(op)
  /\ wcalls' # << >>
  /\ wcalls'[1].buffer = CommandBytes(args')
  /\ wcalls'[1].result = "Err"

\* C12: when the write of send_song, play_song, clean or max_clean fails,
\* the call returns the error as an Err value: no panic, the handle stays
\* live, and what reached the transport is a proper prefix of the command.
C12_CommandErrorIsReturned ==
  [][\A op \in Commands :
       CommandWriteFailed(op) =>
         /\ result' = "Err"
         /\ status' = "live"
         /\ panic_msg' = panic_msg
         /\ Len(wcalls') = 1
         /\ IsPrefix(Appended, CommandBytes(args'))
         /\ Appended # CommandBytes(args')]_vars

\* C12 witness: play_song got its opcode out, failed on the slot byte and
\* returned Err on a handle that is still live.
C12_Witness ==
  /\ args.op = "play_song"
  /\ result = "Err"
  /\ status = "live"
  /\ panic_msg = ""
  /\ wcalls = << [buffer |-> << 141, 2 >>, sent |-> << 141 >>,
                  result |-> "Err"] >>

\* The mode a transition leads to (spec section 4.1).
Destination(op) ==
  CASE op = "into_passive" -> "Passive"
    [] op = "into_safe" -> "Safe"
    [] op = "into_off" -> "Off"

\* The step is a call of the transition op whose opcode write was answered
\* with an error by the transport.
TransitionWriteFailed(op) ==
  /\ Called(op)
  /\ wcalls' # << >>
  /\ wcalls'[1].buffer = << WireOpcode(op) >>
  /\ wcalls'[1].result = "Err"

\* C13: when the opcode write of a transition fails the call panics: it
\* returns neither a handle of the destination mode nor an error value, and
\* no handle is live afterwards.  A transition that returns a handle had its
\* opcode accepted.
C13_TransitionFailureIsFatal ==
  [][\A op \in Transitions :
       /\ TransitionWriteFailed(op) =>
            /\ result' = "Panic"
            /\ result' \notin {"Handle", "Err"}
            /\ status' \in {"unwound", "aborted"}
            /\ panic_msg' # ""
            /\ mode' = mode
            /\ handle' = handle
       /\ (Called(op) /\ result' = "Handle") =>
            /\ wcalls' = << [buffer |-> << WireOpcode(op) >>,
                             sent |-> << WireOpcode(op) >>, result |-> "Ok"] >>
            /\ mode' = Destination(op)]_vars

\* C13 witness: into_safe failed on its opcode and panicked in Passive.
C13_Witness ==
  /\ args.op = "into_safe"
  /\ result = "Panic"
  /\ mode = "Passive"
  /\ status \in {"unwound", "aborted"}
  /\ wcalls[1] = [buffer |-> << 131 >>, sent |-> << >>, result |-> "Err"]

\* The mode a diagnostic of a failed transition names.
ModeNamed(msg) ==
  CASE msg = "Error entering the off state failed!" -> "Off"
    [] msg = "Error entering the passive state failed!" -> "Passive"
    [] msg = "Error entering the safe state failed!" -> "Safe"
    [] OTHER -> "none"

\* C14, as claimed: the diagnostic of a transition whose opcode write failed
\* names the mode that transition leads to.
C14_DiagnosticNamesTransition ==
  (/\ result = "Panic"
   /\ args.op \in Transitions
   /\ wcalls # << >>
   /\ wcalls[1].buffer = << WireOpcode(args.op) >>
   /\ wcalls[1].result = "Err")
  => ModeNamed(panic_msg) = Destination(args.op)


\* C15: wherever a handle can be used from outside (status "live") and when
\* its destructor runs, it owns a transport: io_port is Some.  The only
\* handle with io_port = None is the one decompose emptied, and that one is
\* disarmed, so no write ever unwraps None.
C15_PortAlwaysOwned ==
  /\ status \in {"live", "dropped", "unwound", "aborted"} =>
       handle.io_port = "Some"
  /\ status = "live" => handle.armed
  /\ husk # NoHusk => (husk.io_port = "None" /\ ~husk.armed)
  /\ \A i \in DOMAIN wcalls : wcalls[i].result # "Unwrap"
  /\ panic_msg # UnwrapMsg

\* C15 witness: after two transitions the consumed handle is empty and
\* disarmed while the live one owns the port.
C15_Witness ==
  /\ status = "live"
  /\ hist = << "into_passive", "into_safe" >>
  /\ husk = [io_port |-> "None", armed |-> FALSE]
  /\ handle = [io_port |-> "Some", armed |-> TRUE]

\* The edges of the mode machine (spec section 4.1).
Edges ==
  { << "Off", "Passive" >>, << "Passive", "Off" >>, << "Passive", "Safe" >>,
    << "Safe", "Off" >>, << "Safe", "Passive" >> }

\* C18: the mode starts at Off and changes only along the five edges; it is
\* never Full, and Safe is never entered from Off.
C18_ModeFollowsEdges ==
  [][/\ hist = << >> => mode = "Off"
     /\ mode \in {"Off", "Passive", "Safe"}
     /\ mode' \in {"Off", "Passive", "Safe"}
     /\ mode' # mode => << mode, mode' >> \in Edges
     /\ \A op \in Transitions :
          (Called(op) /\ result' = "Handle") =>
            (<< mode, mode' >> \in Edges /\ mode' = Destination(op))
     /\ ~(mode = "Off" /\ mode' = "Safe")]_vars

\* C18 witness: the handle went Off -> Passive -> Safe -> Off.
C18_Witness ==
  /\ status = "live"
  /\ mode = "Off"
  /\ hist = << "into_passive", "into_safe", "into_off" >>

\* C19: in a build whose panics unwind, a transition whose opcode write
\* fails panics while the consumed handle is still armed and still owns the
\* port (decompose has not run), so the destructor makes exactly one more
\* write attempt, of 0xAD; no successor handle exists and nothing is written
\* afterwards.
C19_FailedTransitionStillShutsDown ==
  [][/\ \A op \in Transitions :
          (TransitionWriteFailed(op) /\ panic_unwind) =>
            /\ handle.armed
            /\ handle.io_port = "Some"
            /\ handle' = handle
            /\ husk' = husk
            /\ mode' = mode
            /\ Len(wcalls') = 2
            /\ wcalls'[2].buffer = << 173 >>
            /\ wcalls'[2].result \in {"Ok", "Err"}
            /\ Appended = wcalls'[1].sent \o wcalls'[2].sent
            /\ (wcalls'[2].result = "Ok") = (Appended = << 173 >>)
            /\ status' \in {"unwound", "aborted"}
            /\ result' = "Panic"
     /\ status \in {"unwound", "aborted"} => (log' = log /\ wcalls' = wcalls)]_vars

\* C19 witness: into_passive failed on 0x80, the unwinding destructor wrote
\* 0xAD, and that is all the transport ever received.
C19_Witness ==
  /\ panic_unwind
  /\ status = "unwound"
  /\ hist = << "into_passive" >>
  /\ wcalls = << [buffer |-> << 128 >>, sent |-> << >>, result |-> "Err"],
                 [buffer |-> << 173 >>, sent |-> << 173 >>, result |-> "Ok"] >>
  /\ log = << 173 >>

\* The last call was a command that returned Err and the handle lives.
AfterCommandErr ==
  /\ status = "live"
  /\ args.op \in Commands
  /\ result = "Err"

\* C20: a command that returns Err leaves the handle as it was apart from
\* the bytes sent: same mode, same handle value (port owned, armed), live.
\* From there the transitions of its mode are still callable, commands too
\* (within the bounds of the model), and the destruction that follows makes
\* exactly one write attempt, of 0xAD.
C20_ErrLeavesHandleUsable ==
  [][/\ \A op \in Commands :
          (Called(op) /\ result' = "Err") =>
            /\ mode' = mode
            /\ handle' = handle
            /\ handle'.armed
            /\ handle'.io_port = "Some"
            /\ husk' = husk
            /\ status' = "live"
            /\ IsPrefix(log, log')
     /\ (AfterCommandErr /\ Len(hist) < MaxOps) =>
          /\ mode \in {"Passive", "Safe"}
          /\ ENABLED CallIntoOff
          /\ mode = "Passive" => ENABLED CallIntoSafe
          /\ mode = "Safe" => ENABLED CallIntoPassive
          /\ (mode = "Passive" /\ CmdCount < MaxCmds) =>
               (ENABLED CallClean /\ ENABLED CallMaxClean /\ ENABLED CallSendSong)
          /\ (mode = "Safe" /\ CmdCount < MaxCmds) => ENABLED CallPlaySong
     /\ AfterCommandErr => ENABLED HandleDropped
     /\ (AfterCommandErr /\ Called("drop")) =>
          /\ Len(wcalls') = 1
          /\ wcalls'[1].buffer = << 173 >>
          /\ wcalls'[1].result \in {"Ok", "Err"}
          /\ (wcalls'[1].result = "Ok") = (Appended = << 173 >>)]_vars

\* C20 witness: clean failed, max_clean then went through on the same
\* handle, and the drop wrote the one 0xAD.
C20_Witness ==
  /\ status = "dropped"
  /\ hist = << "into_passive", "clean", "max_clean", "drop" >>
  /\ log = << 128, 136, 173 >>
  /\ wcalls = << [buffer |-> << 173 >>, sent |-> << 173 >>, result |-> "Ok"] >>


\* C16: when the transport fails on byte k of the buffer having accepted
\* bytes 0..k-1, write returns Err at once: the wire holds exactly the first
\* k bytes, in order, byte k is not sent again and no later byte is sent.
\* The byte-by-byte loop agrees with write(handle, wbuf, k).
C16_FirstErrorEndsWrite ==
  [][/\ (wfail' /\ ~wfail) =>
          /\ wpc' = "err"
          /\ result' = "Err"
          /\ log' = log
          /\ wpos' = wpos
          /\ wpos' < Len(wbuf)
          /\ log' = << OpStart >> \o SubSeq(wbuf, 1, wpos')
          /\ wcalls' = << WriteCall(wbuf, write(handle, wbuf, wpos')) >>
          /\ wcalls'[1].result = "Err"
          /\ Len(wcalls'[1].sent) = wpos'
     /\ wpc = "err" => (log' = log /\ wpos' = wpos /\ wpc' = "err")
     /\ wpc' = "ok" => ~wfail']_vars

\* C16 witness: a define-song command cut off after its first four bytes.
C16_Witness ==
  /\ wpc = "err"
  /\ result = "Err"
  /\ wbuf = SongBuffer("First", SongOf(2, 0, 1)).bytes
  /\ wpos = 4
  /\ log = << 128, 140, 0, 2, 86 >>

\* C17: a WouldBlock answer changes nothing on the wire and does not move
\* the loop; bytes are accepted one at a time in buffer order, each once;
\* write returns only with every byte accepted or with an error; and when
\* the transport does not answer WouldBlock forever, write returns.
C17_BlocksUntilAcceptedOrFailed ==
  /\ [][/\ polls' # polls => (log' = log /\ wpos' = wpos /\ wpc' = "poll")
        /\ log' # log => (/\ wpos' = wpos + 1
                          /\ log' = Append(log, wbuf[wpos + 1]))
        /\ log' = << OpStart >> \o SubSeq(wbuf, 1, wpos')
        /\ wpc' = "ok" => (wpos' = Len(wbuf) /\ result' = "Ok")
        /\ wpc' = "poll" => result' = result]_vars
  /\ ((wpc = "poll") ~> (wpc \in {"ok", "err"}))

\* C17 witness: the transport answered WouldBlock MaxPolls times and the
\* whole define-song buffer still went out in order.
C17_Witness ==
  /\ wpc = "ok"
  /\ polls = MaxPolls
  /\ Len(wbuf) = 7
  /\ log = << OpStart >> \o wbuf

====
